---------------------------- MODULE Spec2Model ----------------------------
(***************************************************************************)
(* A model of two parts of govuk-casa:                                     *)
(*                                                                         *)
(*   - src/middleware/page/skip.js, the page middleware that marks the     *)
(*     requested waypoint as skipped when the URL carries ?skipto=...,     *)
(*     together with the request pipeline around it (journey rails in      *)
(*     front of it, the journey context it writes to, the session it       *)
(*     persists to);                                                       *)
(*   - src/casa.js, CasaBootstrap, which mounts the CASA middleware and    *)
(*     the router on an Express app.                                       *)
(*                                                                         *)
(* Strings that the code inspects character by character (the skipto       *)
(* parameter, the mount URL, the origin id, waypoint ids, the redirect     *)
(* location) are sequences of one-character strings.                       *)
(***************************************************************************)
EXTENDS Integers, Sequences, FiniteSets, TLC

VARIABLES
    mountUrl,     \* the mountUrl the middleware factory was called with
    data,         \* JourneyContext data: waypoint id -> page data
    validation,   \* JourneyContext validation errors: waypoint id -> errors
    session,      \* req.session: journeyData and journeyValidationErrors
    storeWrite,   \* what session.save handed to the session store
    pc,           \* where the request in flight is
    req,          \* the request in flight
    res,          \* the response of the request in flight
    nextCalls,    \* calls of next() made by the skip middleware
    saveCalls,    \* calls of req.session.save made for this request
    log,          \* req.log entries written for this request
    prev,         \* the redirect of the identical accepted skip just before
    bootPc,       \* CasaBootstrap: position in the function
    bootConfig,   \* CasaBootstrap: the config it was called with
    appStack,     \* CasaBootstrap: what is mounted on the Express app, in order
    ctrlTodo,     \* CasaBootstrap: what the mountController still has to do
    mwIdx,        \* mountCasaMiddleware: next middleware to mount, 0 if not running
    deferred,     \* mount callbacks a mountController kept for later
    thrown,       \* CasaBootstrap: message of the Error it threw, or <<>>
    requests,     \* the requests the app has received: where each is in the
                  \* app's stack, and what its req.casa and res.locals.casa are
    heap          \* the objects made by Object.create(null): their keys

skipVars == <<mountUrl, data, validation, session, storeWrite, pc, req, res,
              nextCalls, saveCalls, log, prev>>
dispatchVars == <<requests, heap>>
bootVars == <<bootPc, bootConfig, appStack, ctrlTodo, mwIdx, deferred, thrown,
              requests, heap>>
vars == <<mountUrl, data, validation, session, storeWrite, pc, req, res,
          nextCalls, saveCalls, log, prev,
          bootPc, bootConfig, appStack, ctrlTodo, mwIdx, deferred, thrown,
          requests, heap>>

-----------------------------------------------------------------------------
(* Bounds of the model *)

\* Longest string, over Alphabet, that the skipto parameter is enumerated at
MaxShortLen == 1

\* Longest list of operations a mountController performs
MaxCtrlOps == 2

\* Requests the app receives
MaxRequests == 2

-----------------------------------------------------------------------------
(* Strings *)

Lower == {"a", "b", "c", "d", "e", "f", "g", "h", "i", "j", "k", "l", "m",
          "n", "o", "p", "q", "r", "s", "t", "u", "v", "w", "x", "y", "z"}
Upper == {"A", "B", "C", "D", "E", "F", "G", "H", "I", "J", "K", "L", "M",
          "N", "O", "P", "Q", "R", "S", "T", "U", "V", "W", "X", "Y", "Z"}
Digit == {"0", "1", "2", "3", "4", "5", "6", "7", "8", "9"}

Slash == "/"

\* The characters the short skipto strings are built from: one of [a-z], one
\* of [A-Z], and the slash
Alphabet == {"a", "Z", Slash}

RECURSIVE StringsUpTo(_)
StringsUpTo(n) ==
    IF n = 0 THEN {<<>>}
    ELSE LET shorter == StringsUpTo(n - 1)
         IN  shorter \cup {Append(s, c) : s \in shorter, c \in Alphabet}

Repeat(c, n) == [i \in 1..n |-> c]

StepOne   == <<"s", "t", "e", "p", "-", "o", "n", "e">>
StepTwo   == <<"s", "t", "e", "p", "-", "t", "w", "o">>
StepThree == <<"s", "t", "e", "p", "-", "t", "h", "r", "e", "e">>
StepFour  == <<"s", "t", "e", "p", "-", "f", "o", "u", "r">>
Main      == <<"m", "a", "i", "n">>

-----------------------------------------------------------------------------
(* skip.js: argument validation *)

\* {1,200} in the pattern
MaxIdLen == 200

\* The character class [a-z0-9-] under the i flag
PatternChar == Lower \cup Upper \cup Digit \cup {"-"}

\* skipto.match(/^[a-z0-9-]{1,200}$/i)
MatchesPattern(s) ==
    /\ Len(s) >= 1
    /\ Len(s) <= MaxIdLen
    /\ \A i \in 1..Len(s) : s[i] \in PatternChar

\* JavaScript values of req.query.skipto: undefined, a string, or something
\* else the query parser produces (an array for ?skipto=a&skipto=b, an object
\* for ?skipto[k]=v)
Undefined == [type |-> "undefined", str |-> <<>>]
Str(s) == [type |-> "string", str |-> s]
NonStrings == {[type |-> "array", str |-> <<>>], [type |-> "object", str |-> <<>>]}

\* typeof skipto !== 'string' || !skipto.match(...)
IsInvalidSkipto(v) == v.type # "string" \/ ~MatchesPattern(v.str)


-----------------------------------------------------------------------------
(* The journey context the middleware writes to (req.journeyData, an       *)
(* instance of lib/JourneyContext.js), by the contract of its methods.     *)

SkipKey == "__skipped__"

\* Page data are functions from field names to values
NoData == [k \in {} |-> TRUE]

CarriesSkipMarker(payload) ==
    SkipKey \in DOMAIN payload /\ payload[SkipKey] = TRUE

getDataForPage(d, id) == IF id \in DOMAIN d THEN d[id] ELSE NoData

\* Top-level merge: the payload's fields win, the others are kept
MergePayload(old, payload) ==
    [k \in DOMAIN old \cup DOMAIN payload |->
        IF k \in DOMAIN payload THEN payload[k] ELSE old[k]]

\* Total replace when the payload carries the skip marker, merge at top
\* level otherwise
setDataForPage(d, id, payload) ==
    LET stored == IF CarriesSkipMarker(payload)
                  THEN payload
                  ELSE MergePayload(getDataForPage(d, id), payload)
    IN  [w \in DOMAIN d \cup {id} |-> IF w = id THEN stored ELSE d[w]]

setValidationErrorsForPage(v, id, errors) ==
    [w \in DOMAIN v \cup {id} |-> IF w = id THEN errors ELSE v[w]]

clearValidationErrorsForPage(v, id) ==
    [w \in DOMAIN v \ {id} |-> v[w]]

hasValidationErrors(v, id) == id \in DOMAIN v /\ Len(v[id]) > 0

getData(d) == d

getValidationErrors(v) == v

isSkipped(d, id) == id \in DOMAIN d /\ d[id] = (SkipKey :> TRUE)

-----------------------------------------------------------------------------
(* The plan and the journey-rails middleware that runs ahead of the skip   *)
(* middleware, by the contract of the traversal engine.                    *)

\* A linear plan: step-one -> step-two -> step-three, each edge guarded by
\* its source having been visited
PlanWaypoints == <<StepOne, StepTwo, StepThree>>

Waypoints == {PlanWaypoints[i] : i \in 1..Len(PlanWaypoints)}

outEdges(w) ==
    {PlanWaypoints[i + 1] : i \in {j \in 1..(Len(PlanWaypoints) - 1) : PlanWaypoints[j] = w}}

\* A waypoint is visited iff it has a data entry (the skip marker included)
\* and no unresolved validation errors
isVisited(d, v, w) == w \in DOMAIN d /\ ~hasValidationErrors(v, w)

DeadEnd == <<>>

resolveNext(d, v, w) ==
    LET open == {t \in outEdges(w) : isVisited(d, v, w)}
    IN  IF open = {} THEN DeadEnd ELSE CHOOSE t \in open : TRUE

RECURSIVE Walk(_, _, _, _, _)
Walk(d, v, cur, target, fuel) ==
    IF cur = target THEN TRUE
    ELSE IF fuel = 0 \/ cur = DeadEnd THEN FALSE
    ELSE Walk(d, v, resolveNext(d, v, cur), target, fuel - 1)

isReachable(d, v, target) ==
    Walk(d, v, PlanWaypoints[1], target, Len(PlanWaypoints))

-----------------------------------------------------------------------------
(* skip.js: the accepted branch *)

\* req.journeyOrigin: absent, or an object whose originId is a value
NoOrigin == [present |-> FALSE, originId |-> Undefined]
Origin(v) == [present |-> TRUE, originId |-> v]

\* const { journeyOrigin = { originId: '' } } = req;  journeyOrigin.originId || ''
OriginIdOf(r) ==
    LET journeyOrigin == IF r.journeyOrigin.present
                         THEN r.journeyOrigin
                         ELSE Origin(Str(<<>>))
    IN  IF journeyOrigin.originId.type = "string" /\ Len(journeyOrigin.originId.str) > 0
        THEN journeyOrigin.originId.str
        ELSE <<>>

\* Each character of s with the one before it ("" before the first) and its
\* position
WithPrevious(s) ==
    [i \in 1..Len(s) |-> <<s[i], IF i > 1 THEN s[i - 1] ELSE "", i>>]

\* The characters of ps, in order; ps is bound once, so that it is evaluated a
\* single time however long it is
Characters(ps) ==
    CHOOSE cs \in {[i \in 1..Len(q) |-> q[i][1]] : q \in {ps}} : TRUE

\* Where the first run of slashes of s ends; 0 if s has no slash
FirstRunEnd(s) ==
    LET slashes == {i \in 1..Len(s) : s[i] = Slash}
    IN  IF slashes = {} THEN 0
        ELSE LET first == CHOOSE i \in slashes : \A j \in slashes : i <= j
                 after == {i \in first..Len(s) : s[i] # Slash}
             IN  IF after = {} THEN Len(s)
                 ELSE (CHOOSE i \in after : \A j \in after : i <= j) - 1

\* .replace(/\/+/, '/') without the g flag: only the first run is collapsed
CollapseFirstRun(s) ==
    LET end == FirstRunEnd(s)
    IN  Characters(SelectSeq(WithPrevious(s),
            LAMBDA p : ~(p[1] = Slash /\ p[2] = Slash /\ p[3] <= end)))

\* .replace(/\/+/g, '/'): every maximal run of slashes becomes one slash, so
\* a slash is dropped iff the character before it is a slash
CollapseSlashes(s) ==
    Characters(SelectSeq(WithPrevious(s), LAMBDA p : ~(p[1] = Slash /\ p[2] = Slash)))

\* `${mountUrl}/${journeyOrigin.originId || ''}/${skipto}`.replace(/\/+/g, '/')
RedirectLocation(m, r) ==
    CollapseSlashes(m \o <<Slash>> \o OriginIdOf(r) \o <<Slash>> \o r.skipto.str)

\* The waypoint the middleware marks: the skip target instead of the
\* requested waypoint
MarkedWaypointSkipto(r) == r.skipto.str

\* The waypoint the middleware marks: req.journeyWaypointId
MarkedWaypoint(r) == r.journeyWaypointId

\* { __skipped__: true }
SkipPayload == (SkipKey :> TRUE)

\* The marker spread over the page's existing data instead of replacing it
ContextAfterSkipMerged(d, v, w) ==
    [data       |-> setDataForPage(d, w, MergePayload(getDataForPage(d, w), SkipPayload)),
     validation |-> clearValidationErrorsForPage(v, w)]

\* The marker set without the page's validation errors being cleared
ContextAfterSkipKeepErrors(d, v, w) ==
    [data       |-> setDataForPage(d, w, SkipPayload),
     validation |-> v]

\* Every page's validation errors cleared instead of the marked page's only
ContextAfterSkipClearAll(d, v, w) ==
    [data       |-> setDataForPage(d, w, SkipPayload),
     validation |-> <<>>]

\* clearValidationErrorsForPage(W); setDataForPage(W, { __skipped__: true })
ContextAfterSkip(d, v, w) ==
    [data       |-> setDataForPage(d, w, SkipPayload),
     validation |-> clearValidationErrorsForPage(v, w)]

\* req.session.journeyData = getData();
\* req.session.journeyValidationErrors = getValidationErrors()
SessionAfterPersist(s, d, v) ==
    [s EXCEPT !.journeyData = getData(d),
              !.journeyValidationErrors = getValidationErrors(v)]

-----------------------------------------------------------------------------
(* Requests *)

MountUrls == {<<Slash>>, <<Slash, "c", Slash>>}

SkiptoValues ==
    {Undefined} \cup NonStrings \cup
    {Str(s) : s \in StringsUpTo(MaxShortLen) \cup
                    {StepFour, Repeat("a", MaxIdLen), Repeat("a", MaxIdLen + 1)}}

Origins == {NoOrigin, Origin(Undefined), Origin(Str(<<>>)), Origin(Str(Main))}

Fields == {"f"}
FieldValues == {TRUE}

\* What a form submission carries: field data, never the skip marker
OrdinaryPayloads ==
    UNION {[fs -> FieldValues] : fs \in (SUBSET Fields) \ {{}}}

ErrorLists == {<<>>, <<"required">>}

NoRequest == [journeyWaypointId |-> <<>>, skipto |-> Undefined, journeyOrigin |-> NoOrigin]
NoResponse == [status |-> 0, body |-> "", location |-> <<>>, sent |-> 0]
EmptySession == [journeyData |-> <<>>, journeyValidationErrors |-> <<>>]

\* No request is in flight
Resting == {"idle", "offRails", "passed", "rejected", "redirected"}

SkipInit ==
    /\ mountUrl \in MountUrls
    /\ data = <<>>
    /\ validation = <<>>
    /\ session = EmptySession
    /\ storeWrite = EmptySession
    /\ pc = "idle"
    /\ req = NoRequest
    /\ res = NoResponse
    /\ nextCalls = 0
    /\ saveCalls = 0
    /\ log = <<>>
    /\ prev = <<>>

\* A GET for waypoint w arrives and goes through journey rails, which lets it
\* on to the page middleware only if w is reachable
JourneyRails(w, skipto, origin) ==
    /\ pc = "idle"
    /\ req' = [journeyWaypointId |-> w, skipto |-> skipto, journeyOrigin |-> origin]
    /\ pc' = IF isReachable(data, validation, w) THEN "skip" ELSE "offRails"
    /\ UNCHANGED <<bootVars, mountUrl, data, validation, session, storeWrite, res,
                   nextCalls, saveCalls, log, prev>>

\* The request that has just been redirected is sent once more, unchanged
RepeatRequest ==
    /\ pc = "redirected"
    /\ prev = <<>>
    /\ prev' = res.location
    /\ res' = NoResponse
    /\ nextCalls' = 0
    /\ saveCalls' = 0
    /\ log' = <<>>
    /\ pc' = IF isReachable(data, validation, req.journeyWaypointId)
             THEN "skip" ELSE "offRails"
    /\ UNCHANGED <<bootVars, mountUrl, data, validation, session, storeWrite, req>>

\* The request is over: its req and res objects are gone
EndRequest ==
    /\ pc \in Resting \ {"idle"}
    /\ pc' = "idle"
    /\ req' = NoRequest
    /\ res' = NoResponse
    /\ nextCalls' = 0
    /\ saveCalls' = 0
    /\ log' = <<>>
    /\ prev' = <<>>
    /\ UNCHANGED <<bootVars, mountUrl, data, validation, session, storeWrite>>

\* A form submission for waypoint w: the page data are merged in, the
\* validation result is recorded, and the context is persisted
SubmitData(w, payload, errors) ==
    /\ pc = "idle"
    /\ isReachable(data, validation, w)
    /\ data' = setDataForPage(data, w, payload)
    /\ validation' = IF Len(errors) = 0
                     THEN clearValidationErrorsForPage(validation, w)
                     ELSE setValidationErrorsForPage(validation, w, errors)
    /\ session' = SessionAfterPersist(session, data', validation')
    /\ storeWrite' = session'
    /\ UNCHANGED <<bootVars, mountUrl, pc, req, res, nextCalls, saveCalls, log, prev>>

\* next() called without the return after it: the handler runs on into the
\* validation, where undefined is not a string, and sends the 400 as well
SkipPassThroughNoReturn ==
    /\ pc = "skip"
    /\ req.skipto = Undefined
    /\ nextCalls' = nextCalls + 1
    /\ res' = [status |-> 400, body |-> "Invalid waypoint", location |-> <<>>,
               sent |-> res.sent + 1]
    /\ pc' = "passed"
    /\ UNCHANGED <<bootVars, mountUrl, data, validation, session, storeWrite, req,
                   saveCalls, log, prev>>

\* if (skipto === undefined) { next(); return; }
SkipPassThrough ==
    /\ pc = "skip"
    /\ req.skipto = Undefined
    /\ nextCalls' = nextCalls + 1
    /\ pc' = "passed"
    /\ UNCHANGED <<bootVars, mountUrl, data, validation, session, storeWrite, req, res,
                   saveCalls, log, prev>>

\* The 400 sent only after the waypoint has been marked and persisted
SkipRejectAfterMarking ==
    /\ pc = "skip"
    /\ req.skipto # Undefined
    /\ IsInvalidSkipto(req.skipto)
    /\ LET ctx == ContextAfterSkip(data, validation, MarkedWaypoint(req))
       IN  /\ data' = ctx.data
           /\ validation' = ctx.validation
           /\ session' = SessionAfterPersist(session, ctx.data, ctx.validation)
    /\ res' = [status |-> 400, body |-> "Invalid waypoint", location |-> <<>>,
               sent |-> res.sent + 1]
    /\ pc' = "rejected"
    /\ UNCHANGED <<bootVars, mountUrl, storeWrite, req, nextCalls, saveCalls, log, prev>>

\* The 400 sent without the return after it: the handler runs on into the
\* marking and the save, whose callback then redirects as well
SkipRejectNoReturn ==
    /\ pc = "skip"
    /\ req.skipto # Undefined
    /\ IsInvalidSkipto(req.skipto)
    /\ res' = [status |-> 400, body |-> "Invalid waypoint", location |-> <<>>,
               sent |-> res.sent + 1]
    /\ log' = Append(log, "info")
    /\ LET ctx == ContextAfterSkip(data, validation, MarkedWaypoint(req))
       IN  /\ data' = ctx.data
           /\ validation' = ctx.validation
           /\ session' = SessionAfterPersist(session, ctx.data, ctx.validation)
    /\ storeWrite' = session'
    /\ saveCalls' = saveCalls + 1
    /\ pc' = "saving"
    /\ UNCHANGED <<bootVars, mountUrl, req, nextCalls, prev>>

\* if (typeof skipto !== 'string' || !skipto.match(...)) {
\*   res.status(400).send('Invalid waypoint'); return; }
SkipReject ==
    /\ pc = "skip"
    /\ req.skipto # Undefined
    /\ IsInvalidSkipto(req.skipto)
    /\ res' = [status |-> 400, body |-> "Invalid waypoint", location |-> <<>>,
               sent |-> res.sent + 1]
    /\ pc' = "rejected"
    /\ UNCHANGED <<bootVars, mountUrl, data, validation, session, storeWrite, req,
                   nextCalls, saveCalls, log, prev>>

\* The session written from the context as it was before the marking
SkipAcceptPersistFirst ==
    /\ pc = "skip"
    /\ req.skipto # Undefined
    /\ ~IsInvalidSkipto(req.skipto)
    /\ log' = Append(log, "info")
    /\ LET ctx == ContextAfterSkip(data, validation, MarkedWaypoint(req))
       IN  /\ data' = ctx.data
           /\ validation' = ctx.validation
           /\ session' = SessionAfterPersist(session, data, validation)
    /\ storeWrite' = session'
    /\ saveCalls' = saveCalls + 1
    /\ pc' = "saving"
    /\ UNCHANGED <<bootVars, mountUrl, req, res, nextCalls, prev>>

\* The redirect sent straight away, outside the save callback
SkipAcceptRedirectEarly ==
    /\ pc = "skip"
    /\ req.skipto # Undefined
    /\ ~IsInvalidSkipto(req.skipto)
    /\ log' = Append(log, "info")
    /\ LET ctx == ContextAfterSkip(data, validation, MarkedWaypoint(req))
       IN  /\ data' = ctx.data
           /\ validation' = ctx.validation
           /\ session' = SessionAfterPersist(session, ctx.data, ctx.validation)
    /\ storeWrite' = session'
    /\ saveCalls' = saveCalls + 1
    /\ res' = [status |-> 302, body |-> "", location |-> RedirectLocation(mountUrl, req),
               sent |-> res.sent + 1]
    /\ pc' = "saving"
    /\ UNCHANGED <<bootVars, mountUrl, req, nextCalls, prev>>

\* The synchronous part of the accepted branch: log, clear the errors, set
\* the marker, copy the context into the session, call req.session.save
SkipAccept ==
    /\ pc = "skip"
    /\ req.skipto # Undefined
    /\ ~IsInvalidSkipto(req.skipto)
    /\ log' = Append(log, "info")
    /\ LET ctx == ContextAfterSkip(data, validation, MarkedWaypoint(req))
       IN  /\ data' = ctx.data
           /\ validation' = ctx.validation
           /\ session' = SessionAfterPersist(session, ctx.data, ctx.validation)
    /\ storeWrite' = session'
    /\ saveCalls' = saveCalls + 1
    /\ pc' = "saving"
    /\ UNCHANGED <<bootVars, mountUrl, req, res, nextCalls, prev>>

\* A save error logged and the handler left at that, with no redirect
SaveCallbackErrorAborts(err) ==
    /\ pc = "saving"
    /\ log' = IF err THEN Append(log, "error") ELSE log
    /\ res' = IF err
              THEN res
              ELSE [status |-> 302, body |-> "", location |-> RedirectLocation(mountUrl, req),
                    sent |-> res.sent + 1]
    /\ pc' = "redirected"
    /\ UNCHANGED <<bootVars, mountUrl, data, validation, session, storeWrite, req,
                   nextCalls, saveCalls, prev>>

\* The callback of req.session.save: log the error if there is one, then
\* res.status(302).redirect(...)
SaveCallback(err) ==
    /\ pc = "saving"
    /\ log' = IF err THEN Append(log, "error") ELSE log
    /\ res' = [status |-> 302, body |-> "", location |-> RedirectLocation(mountUrl, req),
               sent |-> res.sent + 1]
    /\ pc' = "redirected"
    /\ UNCHANGED <<bootVars, mountUrl, data, validation, session, storeWrite, req,
                   nextCalls, saveCalls, prev>>

SkipNext ==
    \/ \E w \in Waypoints, skipto \in SkiptoValues, origin \in Origins :
           JourneyRails(w, skipto, origin)
    \/ \E w \in Waypoints, payload \in OrdinaryPayloads, errors \in ErrorLists :
           SubmitData(w, payload, errors)
    \/ SkipPassThrough
    \/ SkipReject
    \/ SkipAccept
    \/ \E err \in BOOLEAN : SaveCallback(err)
    \/ RepeatRequest
    \/ EndRequest

-----------------------------------------------------------------------------
(* casa.js: CasaBootstrap *)

\* What mountCasaMiddleware mounts on the app, in its order
CasaMiddleware ==
    <<"favicon", "headers", "mount", "static", "nunjucks", "session", "i18n", "variables">>

\* What a mountController may do with the callback it is handed and with the
\* app it is bound to: mount middleware of its own, call the callback, or
\* keep the callback and call it later
CtrlOps == {"use", "callback", "defer"}

RECURSIVE CtrlScripts(_)
CtrlScripts(n) ==
    IF n = 0 THEN {<<>>}
    ELSE LET shorter == CtrlScripts(n - 1)
         IN  shorter \cup {Append(s, op) : s \in shorter, op \in CtrlOps}

NoController == [isFunction |-> FALSE, ops |-> <<>>]

Controllers ==
    {NoController} \cup {[isFunction |-> TRUE, ops |-> s] : s \in CtrlScripts(MaxCtrlOps)}

\* What ingest(config) does: return the validated config, or throw
IngestResults ==
    {[ok |-> TRUE, message |-> ""],
     [ok |-> FALSE, message |-> "mountUrl must be a string"],
     [ok |-> FALSE, message |-> ""]}

BootInit ==
    /\ bootPc = "start"
    /\ bootConfig \in [ingest : IngestResults, mountController : Controllers]
    /\ appStack = <<>>
    /\ ctrlTodo = <<>>
    /\ mwIdx = 0
    /\ deferred = 0
    /\ thrown = <<>>
    /\ requests = <<>>
    /\ heap = <<>>

\* The ingestor's error caught and dropped: CasaBootstrap carries on with the
\* config as it is
IngestConfigSwallowed ==
    /\ bootPc = "start"
    /\ bootPc' = "ingested"
    /\ thrown' = thrown
    /\ UNCHANGED <<skipVars, dispatchVars, bootConfig, appStack, ctrlTodo, mwIdx, deferred>>

\* ingestConfig: the validated config, or
\* throw new Error(nutil.format('[CONFIG ERROR] %s', ex.message))
IngestConfig ==
    /\ bootPc = "start"
    /\ IF bootConfig.ingest.ok
       THEN /\ bootPc' = "ingested"
            /\ thrown' = thrown
       ELSE /\ bootPc' = "threw"
            /\ thrown' = <<"[CONFIG ERROR] ", bootConfig.ingest.message>>
    /\ UNCHANGED <<skipVars, dispatchVars, bootConfig, appStack, ctrlTodo, mwIdx, deferred>>

\* expressApp.use((req, res, next) => { req.casa = ...; res.locals.casa = ...; next(); })
UseNamespace ==
    /\ bootPc = "ingested"
    /\ appStack' = Append(appStack, "casaNamespace")
    /\ bootPc' = "mounting"
    /\ UNCHANGED <<skipVars, dispatchVars, bootConfig, ctrlTodo, mwIdx, deferred, thrown>>

\* validatedConfig.mountController.call({ expressApp, expressRouter }, mountCallback)
CallMountController ==
    /\ bootPc = "mounting"
    /\ bootConfig.mountController.isFunction
    /\ ctrlTodo' = bootConfig.mountController.ops
    /\ bootPc' = "controller"
    /\ UNCHANGED <<skipVars, dispatchVars, bootConfig, appStack, mwIdx, deferred, thrown>>

\* else { mountCallback(); }
CallMountCallback ==
    /\ bootPc = "mounting"
    /\ ~bootConfig.mountController.isFunction
    /\ mwIdx' = 1
    /\ bootPc' = "direct"
    /\ UNCHANGED <<skipVars, dispatchVars, bootConfig, appStack, ctrlTodo, deferred, thrown>>

\* One step of the mountController's own code
ControllerStep ==
    /\ bootPc = "controller"
    /\ mwIdx = 0
    /\ Len(ctrlTodo) > 0
    /\ ctrlTodo' = Tail(ctrlTodo)
    /\ appStack' = IF Head(ctrlTodo) = "use" THEN Append(appStack, "custom") ELSE appStack
    /\ mwIdx' = IF Head(ctrlTodo) = "callback" THEN 1 ELSE mwIdx
    /\ deferred' = IF Head(ctrlTodo) = "defer" THEN deferred + 1 ELSE deferred
    /\ UNCHANGED <<skipVars, dispatchVars, bootPc, bootConfig, thrown>>

\* mountCasaMiddleware, one mount at a time
MountStep ==
    /\ mwIdx >= 1
    /\ appStack' = Append(appStack, CasaMiddleware[mwIdx])
    /\ mwIdx' = IF mwIdx = Len(CasaMiddleware) THEN 0 ELSE mwIdx + 1
    /\ UNCHANGED <<skipVars, dispatchVars, bootPc, bootConfig, ctrlTodo, deferred, thrown>>

\* expressApp.use(validatedConfig.proxyMountUrl, expressRouter); return {...}
MountRouter ==
    /\ mwIdx = 0
    /\ \/ bootPc = "direct"
       \/ bootPc = "controller" /\ Len(ctrlTodo) = 0
    /\ appStack' = Append(appStack, "router")
    /\ bootPc' = "done"
    /\ UNCHANGED <<skipVars, dispatchVars, bootConfig, ctrlTodo, mwIdx, deferred, thrown>>

\* A callback the mountController kept is called after CasaBootstrap returned
DeferredCallback ==
    /\ bootPc = "done"
    /\ mwIdx = 0
    /\ deferred > 0
    /\ deferred' = deferred - 1
    /\ mwIdx' = 1
    /\ UNCHANGED <<skipVars, dispatchVars, bootPc, bootConfig, appStack, ctrlTodo, thrown>>

\* req.casa and res.locals.casa before the namespace middleware has run:
\* undefined. Objects are numbered from 1, in the order they are made.
NoObject == 0

\* A request as the app receives it, about to enter the first entry of the stack
NewRequest == [at |-> 1, casa |-> NoObject, localsCasa |-> NoObject]

\* One pair of objects made for the first request and handed to every request
NamespaceMiddlewareShared(rs, h, r) ==
    [requests |-> [rs EXCEPT ![r] = [at |-> @.at + 1, casa |-> 1, localsCasa |-> 2]],
     heap     |-> IF Len(h) = 0 THEN <<{}, {}>> ELSE h]

\* req.casa = Object.create(null); res.locals.casa = Object.create(null); next()
NamespaceMiddleware(rs, h, r) ==
    [requests |-> [rs EXCEPT ![r] = [at |-> @.at + 1, casa |-> Len(h) + 1,
                                     localsCasa |-> Len(h) + 2]],
     heap     |-> h \o <<{}, {}>>]

\* A variable of the given name set on the object at address a, if there is one
Accumulate(h, a, name) ==
    IF a = NoObject THEN h ELSE [h EXCEPT ![a] = @ \cup {name}]

\* Any other entry of the app's stack sees the request: it leaves a variable of
\* its own in both namespaces and hands the request on; the router answers it
OtherMiddleware(rs, h, r) ==
    LET name == appStack[rs[r].at]
    IN  [requests |-> [rs EXCEPT ![r].at = IF name = "router" THEN 0 ELSE @ + 1],
         heap     |-> Accumulate(Accumulate(h, rs[r].casa, name), rs[r].localsCasa, name)]

\* The entry of the stack that request r is at handles it
Handle(rs, h, r) ==
    IF appStack[rs[r].at] = "casaNamespace"
    THEN NamespaceMiddleware(rs, h, r)
    ELSE OtherMiddleware(rs, h, r)

\* The app is listening, CasaBootstrap having returned, and receives a
\* request: Express hands it to the first entry of the stack at once.
\* (mountCasaMiddleware runs to its end before the app serves anything.)
RequestArrives ==
    /\ bootPc = "done"
    /\ mwIdx = 0
    /\ Len(requests) < MaxRequests
    /\ LET served == Handle(Append(requests, NewRequest), heap, Len(requests) + 1)
       IN  /\ requests' = served.requests
           /\ heap' = served.heap
    /\ UNCHANGED <<skipVars, bootPc, bootConfig, appStack, ctrlTodo, mwIdx, deferred, thrown>>

\* next(): the request reaches the entry after the one that handed it on
NextMiddleware(r) ==
    /\ mwIdx = 0
    /\ requests[r].at \in 1..Len(appStack)
    /\ LET served == Handle(requests, heap, r)
       IN  /\ requests' = served.requests
           /\ heap' = served.heap
    /\ UNCHANGED <<skipVars, bootPc, bootConfig, appStack, ctrlTodo, mwIdx, deferred, thrown>>

BootNext ==
    \/ IngestConfig
    \/ UseNamespace
    \/ CallMountController
    \/ CallMountCallback
    \/ ControllerStep
    \/ MountStep
    \/ MountRouter
    \/ DeferredCallback
    \/ RequestArrives
    \/ \E r \in 1..Len(requests) : NextMiddleware(r)

\* The app as CasaBootstrap leaves it when the config is valid and names no
\* mountController
Booted ==
    /\ bootPc = "done"
    /\ bootConfig = [ingest |-> [ok |-> TRUE, message |-> ""], mountController |-> NoController]
    /\ appStack = <<"casaNamespace">> \o CasaMiddleware \o <<"router">>
    /\ ctrlTodo = <<>>
    /\ mwIdx = 0
    /\ deferred = 0
    /\ thrown = <<>>
    /\ requests = <<>>
    /\ heap = <<>>

-----------------------------------------------------------------------------
(* Specifications *)

\* Requests served by a booted app
Init == SkipInit /\ Booted
Next == SkipNext
Spec == Init /\ [][Next]_vars

\* The same, with session.save calling its callback in the end
FairSpec == Spec /\ WF_vars(\E err \in BOOLEAN : SaveCallback(err))

\* CasaBootstrap on an app that serves no request yet
InitBoot == SkipInit /\ BootInit
NextBoot == BootNext
BootSpec == InitBoot /\ [][NextBoot]_vars

-----------------------------------------------------------------------------
(* Properties of the skip middleware *)

\* The skip middleware has taken the accepted branch for the request in flight
Accepted == pc \in {"saving", "redirected"}

\* The request in flight has been through the skip middleware
Handled == pc \in {"passed", "rejected", "saving", "redirected"}

\* ^[a-z0-9-]{1,200}$ read case-sensitively
MatchesLowercasePattern(s) ==
    /\ Len(s) >= 1
    /\ Len(s) <= MaxIdLen
    /\ \A i \in 1..Len(s) : s[i] \in Lower \cup Digit \cup {"-"}

\* C1: a present skipto is accepted only if it is a string matching
\* ^[a-z0-9-]{1,200}$ case-sensitively; every other present value is answered
\* with 400 and never reaches the marking.
C1_OnlyLowercaseIdsAccepted ==
    LET wellFormed == req.skipto.type = "string" /\ MatchesLowercasePattern(req.skipto.str)
    IN  /\ Accepted => wellFormed
        /\ (Handled /\ req.skipto # Undefined /\ ~wellFormed) =>
               (pc = "rejected" /\ res.status = 400)

\* C2: after the middleware accepts a request for waypoint W, the data stored
\* for W are exactly {__skipped__: true}, with no other key.
C2_SkippedDataIsExactlyTheMarker ==
    Accepted =>
        /\ req.journeyWaypointId \in DOMAIN data
        /\ DOMAIN data[req.journeyWaypointId] = {SkipKey}
        /\ data[req.journeyWaypointId][SkipKey] = TRUE

C2_Witness ==
    /\ pc = "redirected"
    /\ req.journeyWaypointId = StepTwo
    /\ data[StepTwo] = SkipPayload
    /\ ~isSkipped(data, StepOne)

\* C3: after the middleware accepts a request for waypoint W, W has no
\* validation errors, in the journey context and in the errors written to
\* the session.
C3_NoErrorsAfterSkip ==
    Accepted =>
        /\ ~hasValidationErrors(validation, req.journeyWaypointId)
        /\ ~hasValidationErrors(session.journeyValidationErrors, req.journeyWaypointId)

C3_Witness ==
    /\ pc = "saving"
    /\ req.journeyWaypointId = StepTwo
    /\ StepOne \in DOMAIN data
    /\ StepTwo \notin DOMAIN session.journeyValidationErrors
    /\ hasValidationErrors(validation, StepThree)

\* C4: in every reachable context, a waypoint whose data carry the skip
\* marker carries no other field data.
C4_MarkerExcludesFieldData ==
    \A w \in DOMAIN data :
        CarriesSkipMarker(data[w]) => DOMAIN data[w] = {SkipKey}

\* C5: the same skip request applied a second time leaves the journey data,
\* the validation errors and the session as the first application left them,
\* and is redirected to the same location.
C5_SkipIsIdempotent ==
    /\ [][(prev # <<>> /\ pc = "skip" /\ pc' = "saving") =>
             /\ data' = data
             /\ validation' = validation
             /\ session' = session]_vars
    /\ []((pc = "redirected" /\ prev # <<>>) => res.location = prev)

C5_Witness ==
    /\ pc = "redirected"
    /\ prev # <<>>
    /\ res.location = prev
    /\ isSkipped(data, req.journeyWaypointId)
    /\ StepOne \in DOMAIN data /\ "f" \in DOMAIN data[StepOne]

\* Every waypoint of the plan before w has been visited
AllBeforeVisited(d, v, w) ==
    \A i, j \in 1..Len(PlanWaypoints) :
        (PlanWaypoints[j] = w /\ i < j) => isVisited(d, v, PlanWaypoints[i])

\* C6: the middleware sets the skip marker only on a waypoint that passed
\* journey rails for the current context, every waypoint up to it having been
\* visited; a request for an unreachable waypoint marks nothing.
C6_OnlyReachableWaypointsMarked ==
    /\ [][(pc = "skip" /\ pc' = "saving") =>
             /\ isSkipped(data', req.journeyWaypointId)
             /\ \A w \in DOMAIN data' :
                    (w \notin DOMAIN data \/ data'[w] # data[w]) =>
                        /\ w \in Waypoints
                        /\ isReachable(data, validation, w)
                        /\ AllBeforeVisited(data, validation, w)]_vars
    /\ [][(pc = "idle" /\ pc' = "offRails") => data' = data]_vars
    /\ [][pc = "offRails" => (pc' = "idle" /\ data' = data)]_vars

C6_Witness ==
    /\ pc = "saving"
    /\ req.journeyWaypointId = StepThree
    /\ isSkipped(data, StepThree)
    /\ isVisited(data, validation, StepOne)
    /\ isVisited(data, validation, StepTwo)

\* C7: for an accepted skip the session holds the context's data and errors
\* as the skip left them when session.save is called, and the redirect is
\* sent only from the save callback, never before it.
C7_PersistedBeforeRedirect ==
    /\ [](pc = "saving" =>
             /\ session.journeyData = data
             /\ session.journeyValidationErrors = validation
             /\ storeWrite = session
             /\ saveCalls = 1
             /\ res.sent = 0)
    /\ [](res.status = 302 =>
             /\ pc = "redirected"
             /\ saveCalls = 1
             /\ storeWrite.journeyData = data
             /\ storeWrite.journeyValidationErrors = validation)
    /\ [][(res.status # 302 /\ res'.status = 302) => pc = "saving"]_vars

C7_Witness ==
    /\ pc = "saving"
    /\ saveCalls = 1
    /\ res.sent = 0
    /\ isSkipped(session.journeyData, StepOne)
    /\ isSkipped(storeWrite.journeyData, StepOne)

NoAdjacentSlashes(s) ==
    \A i \in 1..(Len(s) - 1) : ~(s[i] = Slash /\ s[i + 1] = Slash)

EndsWith(s, suffix) ==
    /\ Len(s) >= Len(suffix)
    /\ SubSeq(s, Len(s) - Len(suffix) + 1, Len(s)) = suffix

WithoutSlashes(s) == SelectSeq(s, LAMBDA c : c # Slash)

\* The origin id the claim names: empty when the request has no journeyOrigin
\* or its originId is empty
ClaimedOriginId ==
    IF req.journeyOrigin.present /\ req.journeyOrigin.originId.type = "string"
    THEN req.journeyOrigin.originId.str
    ELSE <<>>

\* C8: the redirect location of an accepted skip is M/O/T with the runs of
\* slashes collapsed: no two adjacent slashes, the characters of M, O and T in
\* order, '/' + T at the end; for M = '/', O = 'main', T = 'step-four' it is
\* '/main/step-four'.
C8_RedirectLocation ==
    pc = "redirected" =>
        /\ res.status = 302
        /\ NoAdjacentSlashes(res.location)
        /\ EndsWith(res.location, <<Slash>> \o req.skipto.str)
        /\ WithoutSlashes(res.location) =
               WithoutSlashes(mountUrl \o ClaimedOriginId \o req.skipto.str)
        /\ (mountUrl = <<Slash>> /\ ClaimedOriginId = Main /\ req.skipto.str = StepFour) =>
               res.location = <<Slash>> \o Main \o <<Slash>> \o StepFour

C8_Witness ==
    /\ pc = "redirected"
    /\ mountUrl = <<Slash>>
    /\ req.journeyOrigin = Origin(Str(Main))
    /\ req.skipto = Str(StepFour)
    /\ req.journeyWaypointId = StepTwo
    /\ res.location = <<Slash>> \o Main \o <<Slash>> \o StepFour

\* C10: a request rejected with 400 changes nothing: journey data, validation
\* errors and session are as before, session.save and next() are not called
\* and no redirect is sent.
C10_RejectChangesNothing ==
    /\ [][(pc = "skip" /\ res'.status = 400) =>
             /\ data' = data
             /\ validation' = validation
             /\ session' = session
             /\ storeWrite' = storeWrite
             /\ saveCalls' = saveCalls
             /\ nextCalls' = nextCalls]_vars
    /\ [](pc = "rejected" =>
             /\ res.status = 400
             /\ res.sent = 1
             /\ res.location = <<>>
             /\ saveCalls = 0
             /\ nextCalls = 0)

C10_Witness ==
    /\ pc = "rejected"
    /\ res.status = 400
    /\ req.journeyWaypointId = StepTwo
    /\ req.skipto = Str(Repeat("a", MaxIdLen + 1))
    /\ data[StepOne] = ("f" :> TRUE)

\* C11: a request without a skipto parameter is passed on with exactly one
\* call of next() and nothing else: journey data, validation errors and
\* session are unchanged, session.save is not called, no response is sent.
C11_PassThroughChangesNothing ==
    /\ [][(pc = "skip" /\ req.skipto = Undefined) =>
             /\ pc' = "passed"
             /\ nextCalls' = nextCalls + 1
             /\ data' = data
             /\ validation' = validation
             /\ session' = session
             /\ storeWrite' = storeWrite
             /\ saveCalls' = saveCalls
             /\ res' = res
             /\ log' = log]_vars
    /\ [](pc = "passed" =>
             /\ req.skipto = Undefined
             /\ nextCalls = 1
             /\ saveCalls = 0
             /\ res.sent = 0
             /\ res.status = 0)
    /\ []((req.skipto = Undefined /\ pc \notin {"idle", "skip", "offRails"}) => pc = "passed")

C11_Witness ==
    /\ pc = "passed"
    /\ nextCalls = 1
    /\ res = NoResponse
    /\ req.journeyWaypointId = StepTwo
    /\ isSkipped(data, StepOne)
    /\ isSkipped(session.journeyData, StepOne)

\* The skip middleware is done with the request in flight
Ended == pc \in {"passed", "rejected", "redirected"}

SkiptoPresent == req.skipto # Undefined

SkiptoPasses == ~IsInvalidSkipto(req.skipto)

\* C12: every request the skip middleware handles ends in exactly one of
\* three outcomes: next() is called (iff skipto is undefined), a 400 is sent
\* (iff skipto is present and fails the validation), or a 302 redirect is sent
\* (iff skipto is present and passes it); no request gets two responses, or a
\* response and a call of next().
C12_ExactlyOneOutcome ==
    /\ [](nextCalls + res.sent <= 1)
    /\ [](res.status \in {0, 400, 302})
    /\ [](res.sent = 0 <=> res.status = 0)
    /\ [](Ended => nextCalls + res.sent = 1)
    /\ [](Ended => (nextCalls = 1 <=> ~SkiptoPresent))
    /\ [](Ended => (res.status = 400 <=> (SkiptoPresent /\ ~SkiptoPasses)))
    /\ [](Ended => (res.status = 302 <=> (SkiptoPresent /\ SkiptoPasses)))
    /\ [](pc = "saving" => (SkiptoPresent /\ SkiptoPasses))
    /\ [][pc = "skip" => pc' \in {"passed", "rejected", "saving"}]_vars
    /\ [][pc = "saving" => pc' = "redirected"]_vars

C12_Witness ==
    /\ pc = "redirected"
    /\ res.status = 302
    /\ res.sent = 1
    /\ nextCalls = 0
    /\ req.skipto = Str(Repeat("a", MaxIdLen))
    /\ req.journeyWaypointId = StepThree

\* The save callback has logged an error for the request in flight
SaveErrorLogged == \E i \in 1..Len(log) : log[i] = "error"

\* C13: if session.save reports an error, the error is logged and the 302 to
\* the skip target is sent all the same, the context in memory being marked
\* as skipped; and as long as session.save calls its callback in the end,
\* every accepted skip gets its 302, whether the save succeeded or failed.
C13_RedirectedWhateverTheSave ==
    /\ [][pc = "saving" =>
             /\ pc' = "redirected"
             /\ res'.status = 302
             /\ res'.sent = 1
             /\ EndsWith(res'.location, <<Slash>> \o req.skipto.str)
             /\ data' = data
             /\ isSkipped(data', req.journeyWaypointId)
             /\ (log' = log \/ log' = Append(log, "error"))]_vars
    /\ []((pc = "redirected" /\ SaveErrorLogged) =>
             /\ res.status = 302
             /\ isSkipped(data, req.journeyWaypointId))
    /\ (pc = "saving") ~> (pc = "redirected" /\ res.status = 302)

C13_Witness ==
    /\ pc = "redirected"
    /\ log = <<"info", "error">>
    /\ res.status = 302
    /\ req.journeyWaypointId = StepOne
    /\ req.skipto = Str(StepFour)
    /\ isSkipped(data, StepOne)

\* What f holds for waypoint w: its entry, or nothing
EntryOf(f, w) == IF w \in DOMAIN f THEN <<f[w]>> ELSE <<>>

OtherWaypoints ==
    (Waypoints \cup DOMAIN data \cup DOMAIN validation
        \cup DOMAIN session.journeyData \cup DOMAIN session.journeyValidationErrors)
    \ {req.journeyWaypointId}

\* C14: the accepted branch, marking waypoint W, leaves the data and the
\* validation errors of every waypoint other than W as they were, in the
\* journey context and in the session snapshot written from it; it adds no
\* entry for another waypoint and removes none.
C14_OtherWaypointsUntouched ==
    /\ [][(pc = "skip" /\ pc' = "saving") =>
             /\ req' = req
             /\ \A w \in OtherWaypoints :
                    /\ EntryOf(data', w) = EntryOf(data, w)
                    /\ EntryOf(validation', w) = EntryOf(validation, w)
                    /\ EntryOf(session'.journeyData, w) = EntryOf(data, w)
                    /\ EntryOf(session'.journeyValidationErrors, w) = EntryOf(validation, w)
                    /\ EntryOf(session'.journeyData, w) = EntryOf(session.journeyData, w)
                    /\ EntryOf(session'.journeyValidationErrors, w)
                          = EntryOf(session.journeyValidationErrors, w)
             /\ DOMAIN data' \subseteq DOMAIN data \cup {req.journeyWaypointId}
             /\ DOMAIN validation' \subseteq DOMAIN validation
             /\ DOMAIN session'.journeyData \subseteq DOMAIN data \cup {req.journeyWaypointId}
             /\ DOMAIN session'.journeyValidationErrors \subseteq DOMAIN validation]_vars
    /\ [][pc = "saving" => (data' = data /\ validation' = validation /\ session' = session)]_vars

C14_Witness ==
    /\ pc = "saving"
    /\ req.journeyWaypointId = StepTwo
    /\ isSkipped(data, StepTwo)
    /\ StepOne \in DOMAIN data /\ "f" \in DOMAIN data[StepOne]
    /\ StepOne \in DOMAIN session.journeyData /\ "f" \in DOMAIN session.journeyData[StepOne]
    /\ hasValidationErrors(validation, StepThree)
    /\ hasValidationErrors(session.journeyValidationErrors, StepThree)

-----------------------------------------------------------------------------
(* Properties of CasaBootstrap *)

\* C9: in every execution of CasaBootstrap, with or without a
\* mountController, the router is mounted only after all the CASA middleware
\* has been mounted on the app.
C9_RouterAfterAllCasaMiddleware ==
    \A i \in 1..Len(appStack) :
        appStack[i] = "router" =>
            \A k \in 1..Len(CasaMiddleware) :
                \E j \in 1..(i - 1) : appStack[j] = CasaMiddleware[k]

\* C15: when the ingestor rejects the config, CasaBootstrap throws an Error
\* with the message '[CONFIG ERROR] ' followed by the ingestor's message, and
\* does so with nothing registered on the app: no namespace middleware, no
\* CASA middleware, no router; the mountController is never called, then or
\* later.
C15_IngestFailureRegistersNothing ==
    /\ [](~bootConfig.ingest.ok =>
             /\ bootPc \in {"start", "threw"}
             /\ appStack = <<>>
             /\ ctrlTodo = <<>>
             /\ mwIdx = 0
             /\ deferred = 0)
    /\ []((~bootConfig.ingest.ok /\ bootPc = "start") => thrown = <<>>)
    /\ [](bootPc = "threw" =>
             /\ ~bootConfig.ingest.ok
             /\ thrown = <<"[CONFIG ERROR] ", bootConfig.ingest.message>>)
    /\ [][~bootConfig.ingest.ok => (bootPc = "start" /\ bootPc' = "threw")]_vars

C15_Witness ==
    /\ bootPc = "threw"
    /\ thrown = <<"[CONFIG ERROR] ", "mountUrl must be a string">>
    /\ bootConfig.mountController.isFunction
    /\ bootConfig.mountController.ops = <<"use", "callback">>
    /\ appStack = <<>>

\* The requests that have gone past the first entry of the app's stack
PastFirstEntry == {r \in 1..Len(requests) : requests[r].at # 1}

\* What the entries of the stack that request r has been through, the first
\* one apart, have left in its namespaces
LeftBehind(r) ==
    LET last == IF requests[r].at = 0
                THEN CHOOSE i \in 1..Len(appStack) : appStack[i] = "router"
                ELSE requests[r].at - 1
    IN  {appStack[i] : i \in 2..last}

\* C16: the casa namespace middleware is the first entry of the app's stack,
\* ahead of every CASA middleware and of the router, and in place before the
\* mountController runs; so every request that an entry after it sees has a
\* req.casa and a res.locals.casa that were made for this request alone, are
\* two different objects, are shared with no other request, and were empty
\* when made: they hold what this request's middleware left there, nothing
\* else.
C16_NamespaceFirstAndFresh ==
    /\ \A i \in 1..Len(appStack) : (appStack[i] = "casaNamespace") <=> (i = 1)
    /\ (bootPc \in {"mounting", "controller", "direct", "done"} \/ mwIdx >= 1) =>
           (Len(appStack) >= 1 /\ appStack[1] = "casaNamespace")
    /\ Len(requests) > 0 => (Len(appStack) >= 1 /\ appStack[1] = "casaNamespace")
    /\ \A r \in PastFirstEntry :
           /\ requests[r].casa \in 1..Len(heap)
           /\ requests[r].localsCasa \in 1..Len(heap)
           /\ requests[r].casa # requests[r].localsCasa
           /\ heap[requests[r].casa] = LeftBehind(r)
           /\ heap[requests[r].localsCasa] = LeftBehind(r)
           /\ \A q \in PastFirstEntry \ {r} :
                  {requests[r].casa, requests[r].localsCasa}
                      \cap {requests[q].casa, requests[q].localsCasa} = {}

C16_Witness ==
    /\ bootConfig.mountController.ops = <<"use", "callback">>
    /\ Len(requests) = 2
    /\ requests[1].at = 4
    /\ requests[2].at = 2
    /\ heap[requests[1].casa] = {"custom", "favicon"}
    /\ heap[requests[2].casa] = {}
    /\ heap[requests[2].localsCasa] = {}

=============================================================================
